---- MODULE Spec2Model ----
(***************************************************************************)
(* Model of the ENDGME scraping backend: ScrapingUtils (the extraction     *)
(* functions, src/unnamed/part_001) and ScrapingService (the policy gate   *)
(* and the passes, src/unnamed/part_002).                                  *)
(*                                                                         *)
(* A page (heroPageData) is the parsed document reduced to the elements    *)
(* the selectors of the code match.  Texts are strings; the JavaScript     *)
(* string methods the code calls are the operators of the first section.   *)
(***************************************************************************)
EXTENDS Integers, Sequences, FiniteSets, TLC

(***************************************************************************)
(* Bounds of the model.                                                    *)
(***************************************************************************)
\* longest text of a health value field
MaxTextLen == 3
\* most images in a difficulty panel (the code accepts 1..5 full stars)
MaxImgs == 6
\* most <blockquote> elements on a page
MaxBlocks == 2
\* most <p> elements in the blockquotes of a page, all blocks together
MaxParas == 4
\* most tbody > tr rows of a skill table
MaxRows == 3
\* most info panels (aside) of a legacy page
MaxAsides == 2
\* the characters of the roster are at most
NumHeroes == 2
\* the passes started in a behaviour are at most
MaxRuns == 1

(***************************************************************************)
(* JavaScript values and string methods.                                   *)
(***************************************************************************)
\* null, as returned by the extractors
Null == [js |-> "null"]
\* the NaN parseInt returns
NaN == [js |-> "NaN"]
\* a number
Num(n) == [num |-> n]
\* a string, where the value may also be null
Str(s) == [str |-> s]
\* an attribute that is not on the element (cheerio's attr gives undefined)
NoAttr == [js |-> "undefined"]
\* an attribute with value v
Attr(v) == [attr |-> v]
\* attr(...) || ''
AttrOrEmpty(a) == IF a = NoAttr THEN "" ELSE a.attr
\* a selector that matched nothing (length === 0)
NoMatch == [js |-> "nomatch"]
\* the value of a function that has not returned yet
NotCalled == [js |-> "notcalled"]

Lowers == "abcdefghijklmnopqrstuvwxyz"
Uppers == "ABCDEFGHIJKLMNOPQRSTUVWXYZ"
Digits == "0123456789"

CharAt(s, i) == SubSeq(s, i, i)

\* 0 when c does not occur in s (c one character)
RECURSIVE PosFrom(_, _, _)
PosFrom(s, c, i) ==
  IF i > Len(s) THEN 0
  ELSE IF CharAt(s, i) = c THEN i ELSE PosFrom(s, c, i + 1)

Pos(s, c) == PosFrom(s, c, 1)

IsWhite(c) == c \in {" ", "\n", "\t"}

DigitChars == {CharAt(Digits, i) : i \in 1..Len(Digits)}

IsDigit(c) == c \in DigitChars

\* the lower-case letter of each upper-case letter, and the reverse
LowerOf == [c \in {CharAt(Uppers, i) : i \in 1..Len(Uppers)} |-> CharAt(Lowers, Pos(Uppers, c))]

UpperOf == [c \in {CharAt(Lowers, i) : i \in 1..Len(Lowers)} |-> CharAt(Uppers, Pos(Lowers, c))]

RECURSIVE TrimStart(_)
TrimStart(s) ==
  IF Len(s) > 0 /\ IsWhite(CharAt(s, 1)) THEN TrimStart(Tail(s)) ELSE s

RECURSIVE TrimEnd(_)
TrimEnd(s) ==
  IF Len(s) > 0 /\ IsWhite(CharAt(s, Len(s)))
  THEN TrimEnd(SubSeq(s, 1, Len(s) - 1))
  ELSE s

\* String.prototype.trim
Trim(s) == TrimEnd(TrimStart(s))

LowerChar(c) == IF c \in DOMAIN LowerOf THEN LowerOf[c] ELSE c

UpperChar(c) == IF c \in DOMAIN UpperOf THEN UpperOf[c] ELSE c

RECURSIVE LowerFrom(_, _)
LowerFrom(s, i) ==
  IF i > Len(s) THEN "" ELSE LowerChar(CharAt(s, i)) \o LowerFrom(s, i + 1)

ToLowerCase(s) == LowerFrom(s, 1)

RECURSIVE UpperFrom(_, _)
UpperFrom(s, i) ==
  IF i > Len(s) THEN "" ELSE UpperChar(CharAt(s, i)) \o UpperFrom(s, i + 1)

ToUpperCase(s) == UpperFrom(s, 1)

\* cheerio's text() of a set of elements: the texts concatenated
RECURSIVE ConcatAll(_)
ConcatAll(ts) ==
  IF Len(ts) = 0 THEN "" ELSE Head(ts) \o ConcatAll(Tail(ts))

\* the number the leading digits of s denote, starting from acc
RECURSIVE DigitsValue(_, _)
DigitsValue(s, acc) ==
  IF Len(s) > 0 /\ IsDigit(CharAt(s, 1))
  THEN DigitsValue(Tail(s), 10 * acc + (Pos(Digits, CharAt(s, 1)) - 1))
  ELSE acc

\* parseInt(text, 10): leading white space skipped, an optional sign, then the
\* longest run of digits; NaN when there is no digit there
ParseInt(text) ==
  LET t == TrimStart(text)
      signed == Len(t) > 0 /\ CharAt(t, 1) \in {"-", "+"}
      body == IF signed THEN Tail(t) ELSE t
  IN  IF Len(body) = 0 \/ ~IsDigit(CharAt(body, 1)) THEN NaN
      ELSE IF signed /\ CharAt(t, 1) = "-" THEN Num(0 - DigitsValue(body, 0))
      ELSE Num(DigitsValue(body, 0))

\* String.prototype.indexOf(sub), from position i (0-based); -1 when absent
RECURSIVE IndexOfFrom(_, _, _)
IndexOfFrom(s, sub, i) ==
  IF i + Len(sub) > Len(s) THEN -1
  ELSE IF SubSeq(s, i + 1, i + Len(sub)) = sub THEN i
  ELSE IndexOfFrom(s, sub, i + 1)

IndexOf(s, sub) == IndexOfFrom(s, sub, 0)

\* replace(/ /g, '_'): every character from replaced by to
RECURSIVE ReplaceAllChar(_, _, _)
ReplaceAllChar(s, from, to) ==
  IF Len(s) = 0 THEN ""
  ELSE (IF CharAt(s, 1) = from THEN to ELSE CharAt(s, 1))
       \o ReplaceAllChar(Tail(s), from, to)

\* replace(/suffix$/, ''): the suffix removed when s ends with it
StripSuffix(s, suffix) ==
  IF Len(s) >= Len(suffix) /\ SubSeq(s, Len(s) - Len(suffix) + 1, Len(s)) = suffix
  THEN SubSeq(s, 1, Len(s) - Len(suffix))
  ELSE s

\* split(' '): the pieces between the separator characters
RECURSIVE SplitFrom(_, _, _)
SplitFrom(s, sep, piece) ==
  IF Len(s) = 0 THEN <<piece>>
  ELSE IF CharAt(s, 1) = sep THEN <<piece>> \o SplitFrom(Tail(s), sep, "")
  ELSE SplitFrom(Tail(s), sep, piece \o CharAt(s, 1))

Split(s, sep) == SplitFrom(s, sep, "")

\* join(sep)
RECURSIVE Join(_, _)
Join(pieces, sep) ==
  IF Len(pieces) = 0 THEN ""
  ELSE IF Len(pieces) = 1 THEN Head(pieces)
  ELSE Head(pieces) \o sep \o Join(Tail(pieces), sep)

\* all strings over the characters of alphabet, of length at most n
RECURSIVE StringsUpTo(_, _)
StringsUpTo(alphabet, n) ==
  IF n = 0 THEN {""}
  ELSE LET shorter == StringsUpTo(alphabet, n - 1)
       IN  shorter \cup {s \o CharAt(alphabet, i) : s \in shorter, i \in 1..Len(alphabet)}

\* all sequences over S of length at most n
SeqsUpTo(S, n) == UNION {[1..k -> S] : k \in 0..n}

\* a value JavaScript takes for true in a condition: an attribute that is
\* there and not the empty string
Truthy(a) == a # NoAttr /\ a.attr # ""

(***************************************************************************)
(* The page.                                                               *)
(*   blockquotes: the <blockquote> elements in document order, each with   *)
(*                its id and class attributes and the texts of its <p>     *)
(*   health:      NoMatch, or the div[data-source="health"] panel with the *)
(*                texts of its div.pi-data-value fields                    *)
(*   difficulty:  NoMatch, or the div[data-source="difficulty"] panel with *)
(*                the alt attribute of each of its <img>                   *)
(*   skillTable:  NoMatch, or the first table.wikitable.skill-table with   *)
(*                its tbody > tr rows                                      *)
(*   asides:      the .fandom-table tbody tr td aside elements             *)
(***************************************************************************)
EmptyPage ==
  [blockquotes |-> <<>>, health |-> NoMatch, difficulty |-> NoMatch,
   skillTable |-> NoMatch, asides |-> <<>>]

VARIABLES
  heroPageData,      \* the document handed to the extractor
  result,            \* what the extractor returned, NotCalled before it ran
  pc,                \* where extractAbilities stands: idle, rows, done
  rowIdx,            \* the row the each() loop of extractNewFormatAbilities is at
  currentAbility,    \* its accumulator, Null before the first start row
  abilitiesToInsert  \* the list it builds

VARIABLES
  news,                     \* the rows of table news, one per url
  marvel_rivals_heroes,     \* the rows of table marvel_rivals_heroes, in select order
  marvel_rivals_abilities,  \* the rows of table marvel_rivals_abilities, one per name
  pass,                     \* for each pass of ScrapingService, where it stands
  now                       \* the clock: the number of passes started so far

utilVars == <<heroPageData, result>>

walkVars == <<pc, rowIdx, currentAbility, abilitiesToInsert>>

passVars == <<news, marvel_rivals_heroes, marvel_rivals_abilities, pass, now>>

vars == <<utilVars, walkVars, passVars>>

\* the passes of ScrapingService that walk a work list
PassNames == {"scrapeNews", "scrapeHeroes", "scrapeHeroLoreAndStats", "scrapeHeroAbilities"}

\* axios.get of the current item has not resolved
NotFetched == [fetched |-> FALSE]

\* the locals of a pass that is not running
\*   pc:       idle, select, canScrape, get, update, upsert, pause, done
\*   work:     the list the for loop walks
\*   i:        the position of the loop in work
\*   j:        in scrapeNews, the position of the inner loop in newsItems
\*   robots:   what the robots.txt request of the current item came to
\*   page:     the document fetched for the current item
\*   inFlight: the payload of the store request awaited
\*   last:     the item that ended last, with the outcome the pass logged
NotRunning ==
  [pc |-> "idle", work |-> <<>>, i |-> 0, j |-> 0, robots |-> NotCalled,
   page |-> NotFetched, inFlight |-> Null, last |-> Null]

\* ScrapingService has run no pass and the tables are empty
NoPassRunning ==
  /\ news = {}
  /\ marvel_rivals_heroes = <<>>
  /\ marvel_rivals_abilities = {}
  /\ pass = [p \in PassNames |-> NotRunning]
  /\ now = 0

\* extractAbilities is not running
WalkIdle ==
  /\ pc = "idle"
  /\ rowIdx = 0
  /\ currentAbility = Null
  /\ abilitiesToInsert = <<>>

(***************************************************************************)
(* ScrapingUtils.extractHealth                                             *)
(***************************************************************************)
\* mutant: a value that does not parse becomes 0 (parseInt(...) || 0)
extractHealthOrZero(page) ==
  IF page.health = NoMatch THEN Null
  ELSE LET healthValue == ParseInt(Trim(ConcatAll(page.health.values)))
       IN  IF healthValue = NaN THEN Num(0) ELSE healthValue

extractHealth(page) ==
  IF page.health = NoMatch THEN Null
  ELSE LET healthText == Trim(ConcatAll(page.health.values))
           healthValue == ParseInt(healthText)
       IN  IF healthValue = NaN THEN Null ELSE healthValue

(***************************************************************************)
(* ScrapingUtils.extractDifficulty                                         *)
(***************************************************************************)
\* the each() loop: difficulty += 1 for every img whose alt is 'StarFull'
RECURSIVE CountStarFull(_)
CountStarFull(imgs) ==
  IF Len(imgs) = 0 THEN 0
  ELSE (IF AttrOrEmpty(Head(imgs)) = "StarFull" THEN 1 ELSE 0)
       + CountStarFull(Tail(imgs))

\* mutant: a count above 5 is clamped to 5 instead of rejected
extractDifficultyClamped(page) ==
  IF page.difficulty = NoMatch THEN Null
  ELSE LET difficulty == CountStarFull(page.difficulty.imgs)
       IN  IF difficulty < 1 THEN Null
           ELSE IF difficulty > 5 THEN Num(5) ELSE Num(difficulty)

extractDifficulty(page) ==
  IF page.difficulty = NoMatch THEN Null
  ELSE LET difficulty == CountStarFull(page.difficulty.imgs)
       IN  IF difficulty < 1 \/ difficulty > 5 THEN Null ELSE Num(difficulty)

\* generateStats: both extractors on the same page
generateStats(page) ==
  [health |-> extractHealth(page), difficulty |-> extractDifficulty(page)]

(***************************************************************************)
(* ScrapingUtils.getHeroLoreSection                                        *)
(***************************************************************************)
\* the biography marker; the em dash (U+2014) of the source is written --
Marker == "-- Biography"

\* mutant: every blockquote is a candidate
FilterNothing(blocks) == blocks

\* $('blockquote').filter(...): the blockquotes with no id and no class
RECURSIVE FilterNoIdNoClass(_)
FilterNoIdNoClass(blocks) ==
  IF Len(blocks) = 0 THEN <<>>
  ELSE (IF ~Truthy(Head(blocks).id) /\ ~Truthy(Head(blocks).class)
        THEN <<Head(blocks)>> ELSE <<>>) \o FilterNoIdNoClass(Tail(blocks))

\* pTags.slice(0, -1).each(...): loreContent += paragraph + two newlines, for
\* every paragraph whose trimmed text is not empty
RECURSIVE AppendParagraphs(_, _)
AppendParagraphs(loreContent, ps) ==
  IF Len(ps) = 0 THEN loreContent
  ELSE LET paragraph == Trim(Head(ps))
       IN  AppendParagraphs(
             IF paragraph # "" THEN loreContent \o paragraph \o "\n\n" ELSE loreContent,
             Tail(ps))

\* loreBlockquotes.each(...): the loop stops (return false) at the first block
\* whose last <p> reads the marker; [found, loreContent] when it ends
RECURSIVE ScanBlockquotes(_)
ScanBlockquotes(blocks) ==
  IF Len(blocks) = 0 THEN [biographyFound |-> FALSE, loreContent |-> ""]
  ELSE LET pTags == Head(blocks).ps
           lastPText == IF Len(pTags) = 0 THEN "" ELSE Trim(pTags[Len(pTags)])
       IN  IF lastPText = Marker
           THEN [biographyFound |-> TRUE,
                 loreContent |-> AppendParagraphs("", SubSeq(pTags, 1, Len(pTags) - 1))]
           ELSE ScanBlockquotes(Tail(blocks))

getHeroLoreSection(page) ==
  LET loreBlockquotes == FilterNoIdNoClass(page.blockquotes)
      scan == ScanBlockquotes(loreBlockquotes)
      loreContent == Trim(scan.loreContent)
  IN  IF Len(loreBlockquotes) = 0 THEN Null
      ELSE IF ~scan.biographyFound THEN Null
      ELSE IF loreContent = "" THEN Null
      ELSE Str(loreContent)

(***************************************************************************)
(* Specification of the lore extractor: a page with any blockquotes within *)
(* the bounds, then one call.                                              *)
(***************************************************************************)
ParaTexts == {"", " a ", " " \o Marker \o "\n"}

\* the id and class a blockquote may carry
BlockAttrs ==
  {[id |-> NoAttr, class |-> NoAttr], [id |-> Attr("x"), class |-> NoAttr],
   [id |-> NoAttr, class |-> Attr("c")], [id |-> NoAttr, class |-> Attr("")]}

\* the sum of the first k numbers of ns
RECURSIVE SumFirst(_, _)
SumFirst(ns, k) == IF k = 0 THEN 0 ELSE ns[k] + SumFirst(ns, k - 1)

\* the blockquotes with the given attributes and paragraph counts, their
\* paragraphs taken in document order from texts
BlocksOf(attrs, lens, texts) ==
  [i \in 1..Len(attrs) |->
     [id |-> attrs[i].id, class |-> attrs[i].class,
      ps |-> SubSeq(texts, SumFirst(lens, i - 1) + 1, SumFirst(lens, i))]]

InitLore ==
  /\ \E n \in 0..MaxBlocks :
       \E attrs \in [1..n -> BlockAttrs] :
         \E lens \in [1..n -> 0..MaxParas] :
           /\ SumFirst(lens, n) <= MaxParas
           /\ \E texts \in [1..SumFirst(lens, n) -> ParaTexts] :
                heroPageData = [EmptyPage EXCEPT !.blockquotes = BlocksOf(attrs, lens, texts)]
  /\ result = NotCalled
  /\ WalkIdle
  /\ NoPassRunning

CallGetHeroLoreSection ==
  /\ result = NotCalled
  /\ result' = [fn |-> "getHeroLoreSection", value |-> getHeroLoreSection(heroPageData)]
  /\ UNCHANGED <<heroPageData, walkVars, passVars>>

NextLore == CallGetHeroLoreSection

SpecLore == InitLore /\ [][NextLore]_vars

\* a blockquote with neither id nor class (an empty attribute value is none)
Unattributed(b) == ~Truthy(b.id) /\ ~Truthy(b.class)

\* the trimmed text of the last paragraph of b is exactly the marker
EndsWithMarker(b) == Len(b.ps) > 0 /\ Trim(b.ps[Len(b.ps)]) = Marker

\* the positions of the unattributed blockquotes that end with the marker
MarkedBlocks(page) ==
  {i \in 1..Len(page.blockquotes) :
     Unattributed(page.blockquotes[i]) /\ EndsWithMarker(page.blockquotes[i])}

\* the first of them in document order
FirstMarked(page) ==
  CHOOSE i \in MarkedBlocks(page) : \A j \in MarkedBlocks(page) : i <= j

\* the trimmed texts of the paragraphs of b before its last one
PrecedingTexts(b) == [i \in 1..(Len(b.ps) - 1) |-> Trim(b.ps[i])]

RECURSIVE NonEmptyOnly(_)
NonEmptyOnly(ts) ==
  IF Len(ts) = 0 THEN <<>>
  ELSE (IF Head(ts) = "" THEN <<>> ELSE <<Head(ts)>>) \o NonEmptyOnly(Tail(ts))

\* the texts with a blank line between each two
RECURSIVE JoinBlankLine(_)
JoinBlankLine(ts) ==
  IF Len(ts) = 0 THEN ""
  ELSE IF Len(ts) = 1 THEN Head(ts)
  ELSE Head(ts) \o "\n\n" \o JoinBlankLine(Tail(ts))

\* a lore text, or null when it is empty
LoreOrNull(t) == IF t = "" THEN Null ELSE Str(t)

\* C10 as stated: the lore is the trimmed texts of all the paragraphs before
\* the marker paragraph of the first unattributed blockquote ending with the
\* marker, joined by a blank line (and trimmed; null when nothing is left).
C10_LoreIsAllPrecedingJoined ==
  result # NotCalled /\ result.fn = "getHeroLoreSection" =>
    IF MarkedBlocks(heroPageData) = {} THEN result.value = Null
    ELSE result.value =
           LoreOrNull(Trim(JoinBlankLine(
             PrecedingTexts(heroPageData.blockquotes[FirstMarked(heroPageData)]))))

\* C10 amended: the lore is the non-empty trimmed texts of the paragraphs
\* before the marker paragraph of the first unattributed blockquote ending
\* with the marker, joined by a blank line; a paragraph whose trimmed text is
\* empty adds nothing (no extra blank line), and null is returned when there
\* is no such block or no non-empty text.  No paragraph of another block and
\* not the marker paragraph is part of the result.
C10_LoreIsNonEmptyPrecedingJoined ==
  result # NotCalled /\ result.fn = "getHeroLoreSection" =>
    IF MarkedBlocks(heroPageData) = {} THEN result.value = Null
    ELSE result.value =
           LoreOrNull(JoinBlankLine(NonEmptyOnly(
             PrecedingTexts(heroPageData.blockquotes[FirstMarked(heroPageData)]))))

\* C10 witness: the first blockquote carries an id and ends with the marker,
\* the second is unattributed and ends with the marker, and the lore returned
\* is the text of the second
C10_Witness ==
  /\ result # NotCalled /\ result.fn = "getHeroLoreSection"
  /\ Len(heroPageData.blockquotes) = 2
  /\ Truthy(heroPageData.blockquotes[1].id)
  /\ EndsWithMarker(heroPageData.blockquotes[1])
  /\ Len(heroPageData.blockquotes[1].ps) = 2
  /\ MarkedBlocks(heroPageData) = {2}
  /\ result.value = Str("a")

(***************************************************************************)
(* Specification of the stat extractors: a page with any health panel and  *)
(* any difficulty panel within the bounds, then one call.                  *)
(***************************************************************************)
HealthChars == "07- x"

ImgAlts == {NoAttr, Attr("StarFull"), Attr("StarEmpty"), Attr("starfull")}

HealthPanels ==
  {NoMatch} \cup {[values |-> vs] : vs \in SeqsUpTo(StringsUpTo(HealthChars, MaxTextLen), 1)}

DifficultyPanels ==
  {NoMatch} \cup {[imgs |-> is] : is \in SeqsUpTo(ImgAlts, MaxImgs)}

InitStats ==
  /\ \/ \E h \in HealthPanels : heroPageData = [EmptyPage EXCEPT !.health = h]
     \/ \E d \in DifficultyPanels : heroPageData = [EmptyPage EXCEPT !.difficulty = d]
  /\ result = NotCalled
  /\ WalkIdle
  /\ NoPassRunning

CallExtractHealth ==
  /\ result = NotCalled
  /\ result' = [fn |-> "extractHealth", value |-> extractHealth(heroPageData)]
  /\ UNCHANGED <<heroPageData, walkVars, passVars>>

CallExtractDifficulty ==
  /\ result = NotCalled
  /\ result' = [fn |-> "extractDifficulty", value |-> extractDifficulty(heroPageData)]
  /\ UNCHANGED <<heroPageData, walkVars, passVars>>

NextStats == CallExtractHealth \/ CallExtractDifficulty

SpecStats == InitStats /\ [][NextStats]_vars

\* the number of images of the panel whose alt is exactly StarFull
FullStars(page) ==
  Cardinality({i \in 1..Len(page.difficulty.imgs) :
                 page.difficulty.imgs[i] = Attr("StarFull")})

\* C8: extractDifficulty returns null or an integer in 1..5 equal to the number
\* of full-star images; a missing panel, a count of 0 and a count above 5 give
\* null, never a clamped value.
C8_DifficultyInRangeOrNull ==
  result # NotCalled /\ result.fn = "extractDifficulty" =>
    IF heroPageData.difficulty = NoMatch THEN result.value = Null
    ELSE IF FullStars(heroPageData) \in 1..5
         THEN result.value = Num(FullStars(heroPageData))
         ELSE result.value = Null

\* C8 witness: a panel with six full stars was read and gave null
C8_Witness ==
  /\ result # NotCalled /\ result.fn = "extractDifficulty"
  /\ heroPageData.difficulty # NoMatch
  /\ FullStars(heroPageData) = 6
  /\ result.value = Null

\* the trimmed text of the value fields of the health panel
HealthText(page) == Trim(ConcatAll(page.health.values))

\* the text without its sign
Unsigned(t) == IF Len(t) > 0 /\ CharAt(t, 1) \in {"-", "+"} THEN Tail(t) ELSE t

\* the text starts with a base-10 integer: digits, or a sign and digits
StartsWithInteger(t) == Len(Unsigned(t)) > 0 /\ IsDigit(CharAt(Unsigned(t), 1))

\* the length of the run of digits t starts with
DigitRun(t) ==
  CHOOSE k \in 0..Len(t) :
    /\ \A i \in 1..k : IsDigit(CharAt(t, i))
    /\ k < Len(t) => ~IsDigit(CharAt(t, k + 1))

RECURSIVE Pow10(_)
Pow10(n) == IF n = 0 THEN 1 ELSE 10 * Pow10(n - 1)

RECURSIVE SumOver(_, _, _)
SumOver(t, k, i) ==
  IF i > k THEN 0
  ELSE (Pos(Digits, CharAt(t, i)) - 1) * Pow10(k - i) + SumOver(t, k, i + 1)

\* the integer a text that starts with an integer denotes, by place value
DenotedInteger(t) ==
  LET u == Unsigned(t)
      magnitude == SumOver(u, DigitRun(u), 1)
  IN  IF CharAt(t, 1) = "-" THEN 0 - magnitude ELSE magnitude

\* C9 as stated: extractHealth returns null or a positive integer, never zero
\* or a negative number, whatever the value field holds.
C9_HealthPositiveOrNull ==
  result # NotCalled /\ result.fn = "extractHealth" =>
    \/ result.value = Null
    \/ result.value.num > 0

\* C9 amended: extractHealth returns null exactly when the panel is missing or
\* its value field does not start with an integer (such a field never gives
\* zero); otherwise it returns the integer the field starts with, which is 0
\* for a field reading 0 and negative for a field with a minus sign.
C9_HealthIsLeadingInteger ==
  result # NotCalled /\ result.fn = "extractHealth" =>
    IF heroPageData.health = NoMatch \/ ~StartsWithInteger(HealthText(heroPageData))
    THEN result.value = Null
    ELSE result.value = Num(DenotedInteger(HealthText(heroPageData)))

\* C9 witness: a value field that does not start with an integer gave null
\* although the text holds a digit further on
C9_Witness ==
  /\ result # NotCalled /\ result.fn = "extractHealth"
  /\ heroPageData.health # NoMatch
  /\ HealthText(heroPageData) = "x7"
  /\ result.value = Null

(***************************************************************************)
(* ScrapingUtils.capitalizeWords and mapAbilityType                        *)
(***************************************************************************)
\* word.charAt(0).toUpperCase() + word.slice(1)
CapitalizeWord(word) ==
  IF word = "" THEN "" ELSE UpperChar(CharAt(word, 1)) \o Tail(word)

RECURSIVE MapCapitalize(_)
MapCapitalize(words) ==
  IF Len(words) = 0 THEN <<>>
  ELSE <<CapitalizeWord(Head(words))>> \o MapCapitalize(Tail(words))

capitalizeWords(text) == Join(MapCapitalize(Split(ToLowerCase(text), " ")), " ")

\* the own keys of typeMap
TypeMapKeys ==
  {"Primary 1", "Primary 2", "Primary", "Q", "E", "F", "Passive", "Left Shift"}

typeMap ==
  [k \in TypeMapKeys |->
     CASE k = "Primary 1" -> "Left Mouse Button"
       [] k = "Primary 2" -> "Right Mouse Button"
       [] k = "Primary" -> "Left Mouse Button"
       [] k = "Q" -> "Q"
       [] k = "E" -> "E"
       [] k = "F" -> "F"
       [] k = "Passive" -> "Passive"
       [] k = "Left Shift" -> "Left Shift"]

\* typeMap is an object literal: typeMap[rawType] also finds what every object
\* inherits from Object.prototype, each a function (or, for __proto__, an
\* object), which is truthy
InheritedKeys ==
  {"constructor", "toString", "toLocaleString", "valueOf", "hasOwnProperty",
   "isPrototypeOf", "propertyIsEnumerable", "__proto__", "__defineGetter__",
   "__defineSetter__", "__lookupGetter__", "__lookupSetter__"}

\* the inherited member found under key, written as JavaScript prints it
InheritedMember(key) ==
  IF key = "__proto__" THEN "[object Object]"
  ELSE IF key = "constructor" THEN "function Object() { [native code] }"
  ELSE "function " \o key \o "() { [native code] }"

\* typeMap[rawType] || rawType
mapAbilityType(rawType) ==
  IF rawType \in TypeMapKeys THEN typeMap[rawType]
  ELSE IF rawType \in InheritedKeys THEN InheritedMember(rawType)
  ELSE rawType

(***************************************************************************)
(* Ability stats: a JavaScript object, its keys in insertion order.        *)
(***************************************************************************)
StatKeys(stats) == {stats[i].key : i \in 1..Len(stats)}

\* stats[key] = value
SetStat(stats, key, value) ==
  IF key \in StatKeys(stats)
  THEN [i \in 1..Len(stats) |->
          IF stats[i].key = key THEN [key |-> key, value |-> value] ELSE stats[i]]
  ELSE Append(stats, [key |-> key, value |-> value])

(***************************************************************************)
(* ScrapingUtils.extractNewFormatAbilities                                 *)
(*   a row is the list of its td cells; a cell has its colspan attribute,  *)
(*   its first img (NoMatch, or the title and alt of the img), its text,   *)
(*   the text of its small i elements and its b elements, each with the    *)
(*   text of the node that follows it (NoMatch when none does)             *)
(***************************************************************************)
\* the type of a start row, from its first cell
StartRowType(typeCell) ==
  IF typeCell.img # NoMatch
  THEN LET imgTitle == IF Truthy(typeCell.img.title) THEN typeCell.img.title
                       ELSE typeCell.img.alt
       IN  IF imgTitle = Attr("Left mouse button") THEN "Left Mouse Button"
           ELSE IF imgTitle = Attr("Right mouse button") THEN "Right Mouse Button"
           ELSE ""
  ELSE ToUpperCase(Trim(typeCell.text))

\* the name of a start row, from its last cell
StartRowName(tds) == capitalizeWords(Trim(tds[Len(tds)].text))

\* one b element of a continuation row: the stats with its pair set
ApplyBold(stats, elem) ==
  LET fullText == Trim(elem.text)
      separatorIndex == IndexOf(fullText, " - ")
  IN  IF separatorIndex # -1
      THEN LET key == StripSuffix(
                        ReplaceAllChar(ToLowerCase(SubSeq(fullText, 1, separatorIndex)),
                                       " ", "_"),
                        "_-")
               value == Trim(SubSeq(fullText, separatorIndex + 4, Len(fullText)))
           IN  IF key # "" /\ value # "" THEN SetStat(stats, key, value) ELSE stats
      ELSE LET nextText == IF elem.next = NoMatch THEN "" ELSE Trim(elem.next.text)
               key == StripSuffix(
                        ReplaceAllChar(ToLowerCase(StripSuffix(fullText, ":")), " ", "_"),
                        "_-")
           IN  IF nextText # "" /\ key # "" THEN SetStat(stats, key, nextText) ELSE stats

\* td.find('b').each(...)
RECURSIVE ApplyBolds(_, _)
ApplyBolds(stats, bolds) ==
  IF Len(bolds) = 0 THEN stats
  ELSE ApplyBolds(ApplyBold(stats, Head(bolds)), Tail(bolds))

\* tds.length === 3
IsStartRow(tds) == Len(tds) = 3

\* currentAbility && tds.length === 1 && tds.attr('colspan') === '3'
IsContinuationRow(cur, tds) ==
  cur # Null /\ Len(tds) = 1 /\ tds[1].colspan = Attr("3")

\* mutant: a start row whose name is already in the list pushes nothing
StartRowStepDedup(w, tds, heroId) ==
  LET started == [name |-> capitalizeWords(Trim(tds[Len(tds)].text)),
                  type |-> StartRowType(tds[1]), description |-> "", stats |-> <<>>]
  IN  [currentAbility |-> started,
       abilitiesToInsert |->
         IF \E i \in 1..Len(w.abilitiesToInsert) : w.abilitiesToInsert[i].name = started.name
         THEN w.abilitiesToInsert
         ELSE Append(w.abilitiesToInsert,
                     [hero_id |-> heroId, name |-> started.name, type |-> started.type,
                      description |-> "", stats |-> <<>>])]

\* the accumulator and the list after a start row.  The entry pushed holds the
\* stats object of currentAbility itself, not a copy.
StartRowStep(w, tds, heroId) ==
  LET started == [name |-> StartRowName(tds), type |-> StartRowType(tds[1]),
                  description |-> "", stats |-> <<>>]
  IN  [currentAbility |-> started,
       abilitiesToInsert |->
         Append(w.abilitiesToInsert,
                [hero_id |-> heroId, name |-> started.name, type |-> started.type,
                 description |-> started.description, stats |-> started.stats])]

\* mutant: the continuation row is written to the first ability of the list
ContinuationRowStepFirst(w, tds) ==
  LET description == Trim(tds[1].smallI)
      stats == ApplyBolds(w.abilitiesToInsert[1].stats, tds[1].bolds)
  IN  [currentAbility |-> w.currentAbility,
       abilitiesToInsert |->
         [w.abilitiesToInsert EXCEPT
            ![1].description = IF description # "" THEN description ELSE @,
            ![1].stats = stats]]

\* the accumulator and the list after a continuation row: the description is
\* written to both, the stats object is shared by both.  (The test of
\* td.html() changes nothing: an empty cell has no small i and no b.)
ContinuationRowStep(w, tds) ==
  LET td == tds[1]
      description == Trim(td.smallI)
      stats == ApplyBolds(w.currentAbility.stats, td.bolds)
      last == Len(w.abilitiesToInsert)
  IN  [currentAbility |->
         [w.currentAbility EXCEPT
            !.description = IF description # "" THEN description ELSE @,
            !.stats = stats],
       abilitiesToInsert |->
         [w.abilitiesToInsert EXCEPT
            ![last].description = IF description # "" THEN description ELSE @,
            ![last].stats = stats]]

\* one turn of abilityRows.each(...)
WalkRow(w, tds, heroId) ==
  IF IsStartRow(tds) THEN StartRowStep(w, tds, heroId)
  ELSE IF IsContinuationRow(w.currentAbility, tds) THEN ContinuationRowStep(w, tds)
  ELSE w

RECURSIVE WalkRows(_, _, _)
WalkRows(w, rows, heroId) ==
  IF Len(rows) = 0 THEN w
  ELSE WalkRows(WalkRow(w, Head(rows), heroId), Tail(rows), heroId)

extractNewFormatAbilities(skillTable, heroId) ==
  WalkRows([currentAbility |-> Null, abilitiesToInsert |-> <<>>],
           skillTable.rows, heroId).abilitiesToInsert

(***************************************************************************)
(* ScrapingUtils.extractLegacyAbilities                                    *)
(*   an aside has the text of its .pi-title, of its keybind cell, of its   *)
(*   description value, of its properties value, and its horizontal        *)
(*   groups, each with the texts of its labels and of its values           *)
(***************************************************************************)
\* labels.each(...) of one group
RECURSIVE ApplyLabels(_, _, _)
ApplyLabels(stats, group, i) ==
  IF i > Len(group.labels) THEN stats
  ELSE LET key == ReplaceAllChar(ToLowerCase(Trim(group.labels[i])), " ", "_")
           value == IF i <= Len(group.values) THEN Trim(group.values[i]) ELSE ""
       IN  ApplyLabels(IF key # "" /\ value # "" THEN SetStat(stats, key, value) ELSE stats,
                       group, i + 1)

RECURSIVE ApplyGroups(_, _)
ApplyGroups(stats, groups) ==
  IF Len(groups) = 0 THEN stats
  ELSE ApplyGroups(ApplyLabels(stats, Head(groups), 1), Tail(groups))

\* the ability of one aside
LegacyAbility(aside, heroId) ==
  LET grouped == ApplyGroups(<<>>, aside.groups)
      properties == Trim(aside.properties)
  IN  [hero_id |-> heroId,
       name |-> capitalizeWords(Trim(aside.title)),
       type |-> mapAbilityType(Trim(aside.keybind)),
       description |-> Trim(aside.description),
       stats |-> IF properties # "" THEN SetStat(grouped, "properties", properties)
                 ELSE grouped]

extractLegacyAbilities(asides, heroId) ==
  [i \in 1..Len(asides) |-> LegacyAbility(asides[i], heroId)]

(***************************************************************************)
(* ScrapingUtils.extractAbilities                                          *)
(***************************************************************************)
\* mutant: a skill table with no rows counts as absent
HasSkillTableRows(page) == page.skillTable # NoMatch /\ Len(page.skillTable.rows) > 0

\* skillTable.length > 0
HasSkillTable(page) == page.skillTable # NoMatch

\* the if branch is taken
TakesNewFormat(page) == HasSkillTable(page)

\* the else branch is taken
TakesLegacy(page) == ~HasSkillTable(page)

extractAbilities(page, heroId) ==
  IF TakesNewFormat(page) THEN extractNewFormatAbilities(page.skillTable, heroId)
  ELSE extractLegacyAbilities(page.asides, heroId)

(***************************************************************************)
(* Specification of the ability extractors: a page with any skill table    *)
(* of rows from RowPool (and an aside beside it while the rows are fewer   *)
(* than MaxRows), or with no skill table and any asides from AsidePool,    *)
(* within the bounds; extractAbilities classifies it, then                 *)
(* either walks the rows one at a time or reads the asides.                *)
(***************************************************************************)
Cell(text) ==
  [colspan |-> NoAttr, img |-> NoMatch, text |-> text, smallI |-> "", bolds |-> <<>>]

ImgCell(title, alt) ==
  [colspan |-> NoAttr, img |-> [title |-> title, alt |-> alt], text |-> "",
   smallI |-> "", bolds |-> <<>>]

WideCell(colspan, smallI, bolds) ==
  [colspan |-> colspan, img |-> NoMatch, text |-> "", smallI |-> smallI, bolds |-> bolds]

ImgLeft == ImgCell(Attr("Left mouse button"), NoAttr)

ImgRightByAlt == ImgCell(NoAttr, Attr("Right mouse button"))

ImgMiddle == ImgCell(Attr("Middle mouse button"), Attr("Left mouse button"))

\* rows of three cells: the type cell, a cell in between, the name cell.  Two
\* of them have the same name.
StartRows ==
  {<<ImgLeft, Cell(""), Cell(" web STRIKE ")>>,
   <<ImgRightByAlt, Cell(""), Cell("web cluster")>>,
   <<ImgMiddle, Cell(""), Cell("web swing")>>,
   <<Cell(" q "), Cell(""), Cell(" web STRIKE ")>>,
   <<Cell(""), Cell(""), Cell("thwip")>>,
   <<Cell("e"), Cell(""), Cell(" ")>>}

BoldCooldown6 == [text |-> "Cooldown - 6s", next |-> NoMatch]

BoldCooldown9 == [text |-> " Cooldown - 9s ", next |-> NoMatch]

BoldMaxRange == [text |-> "Max Range:", next |-> [text |-> " 5m "]]

BoldLists == {<<BoldCooldown6>>, <<BoldCooldown9, BoldMaxRange>>}

ContinuationRows ==
  {<<WideCell(Attr("3"), d, bs)>> : d \in {"", " fires webs "}, bs \in BoldLists}

OtherRows ==
  {<<WideCell(Attr("2"), " other ", <<BoldCooldown6>>)>>,
   <<Cell("a"), Cell("b")>>,
   <<>>}

RowPool == StartRows \cup ContinuationRows \cup OtherRows

StatGroup ==
  [labels |-> <<" Max Range ", "Damage">>, values |-> <<" 5m ">>]

AsidePool ==
  {[title |-> t, keybind |-> k, description |-> " swings ",
    groups |-> v.groups, properties |-> v.properties] :
     t \in {" web STRIKE ", ""},
     k \in {"Primary 1", " Q ", "Ultimate", "", "constructor"},
     v \in {[groups |-> <<>>, properties |-> ""],
            [groups |-> <<StatGroup>>, properties |-> " pierces "]}}

\* the hero id handed to extractAbilities
HeroIdArg == "hero-1"

\* an aside of a page that also has a skill table
SpareAside ==
  [title |-> "spare", keybind |-> "E", description |-> "", groups |-> <<>>,
   properties |-> ""]

InitAbilities ==
  /\ \/ \E n \in 0..MaxRows :
          \E rows \in [1..n -> RowPool] :
            \E asides \in {<<>>} \cup (IF n < MaxRows THEN {<<SpareAside>>} ELSE {}) :
              heroPageData = [EmptyPage EXCEPT !.skillTable = [rows |-> rows],
                                               !.asides = asides]
     \/ \E n \in 0..MaxAsides :
          \E asides \in [1..n -> AsidePool] :
            heroPageData = [EmptyPage EXCEPT !.asides = asides]
  /\ result = NotCalled
  /\ WalkIdle
  /\ NoPassRunning

\* extractAbilities on a page with a skill table: extractNewFormatAbilities
\* starts with no current ability and an empty list
EnterNewFormat ==
  /\ pc = "idle" /\ result = NotCalled
  /\ TakesNewFormat(heroPageData)
  /\ pc' = "rows"
  /\ rowIdx' = 1
  /\ currentAbility' = Null
  /\ abilitiesToInsert' = <<>>
  /\ UNCHANGED <<utilVars, passVars>>

\* extractAbilities on a page with no skill table: extractLegacyAbilities
CallLegacy ==
  /\ pc = "idle" /\ result = NotCalled
  /\ TakesLegacy(heroPageData)
  /\ pc' = "done"
  /\ result' = [fn |-> "extractLegacyAbilities",
                value |-> extractAbilities(heroPageData, HeroIdArg)]
  /\ UNCHANGED <<heroPageData, rowIdx, currentAbility, abilitiesToInsert, passVars>>

\* the row the loop is at
CurrentRow == heroPageData.skillTable.rows[rowIdx]

AtRow == pc = "rows" /\ rowIdx <= Len(heroPageData.skillTable.rows)

WalkState == [currentAbility |-> currentAbility, abilitiesToInsert |-> abilitiesToInsert]

\* the loop body on a row of three cells
StartRow ==
  /\ AtRow
  /\ IsStartRow(CurrentRow)
  /\ LET w == WalkRow(WalkState, CurrentRow, HeroIdArg)
     IN  /\ currentAbility' = w.currentAbility
         /\ abilitiesToInsert' = w.abilitiesToInsert
  /\ rowIdx' = rowIdx + 1
  /\ UNCHANGED <<utilVars, pc, passVars>>

\* the loop body on a one-cell row spanning three columns, an ability started
ContinuationRow ==
  /\ AtRow
  /\ ~IsStartRow(CurrentRow)
  /\ IsContinuationRow(currentAbility, CurrentRow)
  /\ LET w == WalkRow(WalkState, CurrentRow, HeroIdArg)
     IN  /\ currentAbility' = w.currentAbility
         /\ abilitiesToInsert' = w.abilitiesToInsert
  /\ rowIdx' = rowIdx + 1
  /\ UNCHANGED <<utilVars, pc, passVars>>

\* the loop body on any other row
OtherRow ==
  /\ AtRow
  /\ ~IsStartRow(CurrentRow)
  /\ ~IsContinuationRow(currentAbility, CurrentRow)
  /\ LET w == WalkRow(WalkState, CurrentRow, HeroIdArg)
     IN  /\ currentAbility' = w.currentAbility
         /\ abilitiesToInsert' = w.abilitiesToInsert
  /\ rowIdx' = rowIdx + 1
  /\ UNCHANGED <<utilVars, pc, passVars>>

\* return abilitiesToInsert
ReturnNewFormat ==
  /\ pc = "rows" /\ rowIdx > Len(heroPageData.skillTable.rows)
  /\ pc' = "done"
  /\ result' = [fn |-> "extractNewFormatAbilities", value |-> abilitiesToInsert]
  /\ UNCHANGED <<heroPageData, rowIdx, currentAbility, abilitiesToInsert, passVars>>

NextAbilities ==
  \/ EnterNewFormat
  \/ CallLegacy
  \/ StartRow
  \/ ContinuationRow
  \/ OtherRow
  \/ ReturnNewFormat

SpecAbilities == InitAbilities /\ [][NextAbilities]_vars

\* the rows of the skill table walked so far
RowsDone ==
  IF pc = "rows" THEN rowIdx - 1
  ELSE IF pc = "done" /\ heroPageData.skillTable # NoMatch
       THEN Len(heroPageData.skillTable.rows)
  ELSE 0

TableRows == heroPageData.skillTable.rows

\* the positions, among the first n rows, of the rows with exactly three cells
StartPositions(n) == {i \in 1..n : Len(TableRows[i]) = 3}

\* the k-th of them in document order
KthStart(n, k) ==
  CHOOSE i \in StartPositions(n) : Cardinality({j \in StartPositions(n) : j <= i}) = k

\* C5: the abilities returned for a skill table are one per row with exactly
\* three cells, in the document order of those rows: the k-th ability has the
\* name and the type of the k-th such row, whatever rows lie in between and
\* also when two rows have the same name.
C5_OneAbilityPerStartRow ==
  result # NotCalled /\ result.fn = "extractNewFormatAbilities" =>
    LET n == Len(TableRows)
    IN  /\ Len(result.value) = Cardinality(StartPositions(n))
        /\ \A k \in 1..Len(result.value) :
             /\ result.value[k].name = StartRowName(TableRows[KthStart(n, k)])
             /\ result.value[k].type = StartRowType(TableRows[KthStart(n, k)][1])
             /\ result.value[k].hero_id = HeroIdArg

\* C5 witness: a start row, a row that is none, and a start row with the same
\* name gave two abilities of that name
C5_Witness ==
  /\ result # NotCalled /\ result.fn = "extractNewFormatAbilities"
  /\ Len(TableRows) = 3
  /\ StartPositions(3) = {1, 3}
  /\ Len(result.value) = 2
  /\ result.value[1].name = result.value[2].name
  /\ result.value[1].type # result.value[2].type

\* a row of one cell spanning three columns
IsWideRow(tds) == Len(tds) = 1 /\ tds[1].colspan = Attr("3")

\* the continuation rows, among the first n rows, of the k-th ability: the
\* wide rows after its start row and before the next start row
SegmentRows(n, k) ==
  {j \in 1..n :
     /\ IsWideRow(TableRows[j])
     /\ j > KthStart(n, k)
     /\ \A i \in StartPositions(n) : i > KthStart(n, k) => j < i}

\* the key/value pairs of one continuation row, as a function
RowPairs(tds) ==
  LET stats == ApplyBolds(<<>>, tds[1].bolds)
  IN  [key \in StatKeys(stats) |->
         (CHOOSE i \in 1..Len(stats) : stats[i].key = key)]

\* the pairs of a set of rows: for each key the value of the last row with it
PairsOfRows(js) ==
  [key \in UNION {DOMAIN RowPairs(TableRows[j]) : j \in js} |->
     LET last == CHOOSE j \in js :
                   /\ key \in DOMAIN RowPairs(TableRows[j])
                   /\ \A h \in js : key \in DOMAIN RowPairs(TableRows[h]) => h <= j
         stats == ApplyBolds(<<>>, TableRows[last][1].bolds)
     IN  stats[RowPairs(TableRows[last])[key]].value]

\* the description of a set of rows: that of the last row that has one
DescriptionOfRows(js) ==
  LET having == {j \in js : Trim(TableRows[j][1].smallI) # ""}
  IN  IF having = {} THEN ""
      ELSE Trim(TableRows[CHOOSE j \in having : \A h \in having : h <= j][1].smallI)

\* a stats object as a function from its keys
StatsAsFunction(stats) ==
  [key \in StatKeys(stats) |->
     stats[CHOOSE i \in 1..Len(stats) : stats[i].key = key].value]

\* C6: at every point of the row walk, the list holds one ability per start
\* row walked, and the description and stats of each are exactly those of the
\* continuation rows walked between its start row and the next start row: a
\* continuation row changes the most recently started ability only, one before
\* any start row changes nothing, and a start row begins with empty
\* description and stats.
C6_StatsFromOwnContinuationRows ==
  pc \in {"rows", "done"} /\ heroPageData.skillTable # NoMatch =>
    LET n == RowsDone
    IN  /\ Len(abilitiesToInsert) = Cardinality(StartPositions(n))
        /\ (currentAbility = Null) = (StartPositions(n) = {})
        /\ \A k \in 1..Len(abilitiesToInsert) :
             /\ Len(abilitiesToInsert[k].stats) = Cardinality(StatKeys(abilitiesToInsert[k].stats))
             /\ StatsAsFunction(abilitiesToInsert[k].stats) = PairsOfRows(SegmentRows(n, k))
             /\ abilitiesToInsert[k].description = DescriptionOfRows(SegmentRows(n, k))

\* C6 witness: two start rows and then a continuation row with a pair; the
\* first ability has no stats, the second has the pair
C6_Witness ==
  /\ pc = "done" /\ heroPageData.skillTable # NoMatch
  /\ Len(TableRows) = 3
  /\ StartPositions(3) = {1, 2}
  /\ IsWideRow(TableRows[3])
  /\ Len(abilitiesToInsert) = 2
  /\ abilitiesToInsert[1].stats = <<>>
  /\ abilitiesToInsert[2].stats = <<[key |-> "cooldown", value |-> "6s"]>>
  /\ abilitiesToInsert[2].description = "fires webs"

\* what holds of the route taken, in every state
RouteTaken ==
  /\ pc = "rows" => heroPageData.skillTable # NoMatch
  /\ result # NotCalled /\ result.fn = "extractNewFormatAbilities" =>
       heroPageData.skillTable # NoMatch
  /\ result # NotCalled /\ result.fn = "extractLegacyAbilities" =>
       /\ heroPageData.skillTable = NoMatch
       /\ rowIdx = 0 /\ abilitiesToInsert = <<>>
       /\ Len(result.value) = Len(heroPageData.asides)
       /\ \A i \in 1..Len(result.value) :
            /\ result.value[i].name = capitalizeWords(Trim(heroPageData.asides[i].title))
            /\ result.value[i].type = mapAbilityType(Trim(heroPageData.asides[i].keybind))
            /\ result.value[i].description = Trim(heroPageData.asides[i].description)
            /\ result.value[i].hero_id = HeroIdArg

\* C7: every page takes exactly one route: the current-format one if and
\* only if the skill table is there (also with no rows), the legacy one
\* otherwise; on the legacy route there is one ability per aside, in document
\* order, and the row walk never runs.
C7_OneRoutePerPage ==
  /\ RouteTaken
  /\ pc = "idle" => (TakesNewFormat(heroPageData) # TakesLegacy(heroPageData))
  /\ pc = "done" =>
       /\ result # NotCalled
       /\ result.fn = IF heroPageData.skillTable # NoMatch
                      THEN "extractNewFormatAbilities" ELSE "extractLegacyAbilities"

\* C7 witness: a page with no skill table and two different asides gave two
\* abilities
C7_Witness ==
  /\ result # NotCalled /\ result.fn = "extractLegacyAbilities"
  /\ Len(heroPageData.asides) = 2
  /\ heroPageData.asides[1] # heroPageData.asides[2]
  /\ Len(result.value) = 2
  /\ result.value[1].type = "Left Mouse Button"
  /\ result.value[2].type = "Q"

(***************************************************************************)
(* ScrapingService: the store, the documents the sources serve, canScrape  *)
(***************************************************************************)
newsUrls ==
  <<[url |-> "https://marvelrivals.com/news/", type |-> "announcement"],
    [url |-> "https://marvelrivals.com/gameupdate/", type |-> "update"],
    [url |-> "https://marvelrivals.com/devdiaries/", type |-> "dev_diary"]>>

marvelRivalsGameId == "acbbf41e-1049-4adf-8b86-4033a324d404"

\* the characters the roster scrape has stored, none of them scraped yet
Hero(k) ==
  [id |-> "hero-" \o ToString(k), name |-> "Hero " \o ToString(k),
   image_url |-> ToString(k) \o ".png", type |-> "duelist", created_at |-> 0,
   game_id |-> marvelRivalsGameId, lore |-> Null, stats |-> Null]

Roster(n) == [k \in 1..n |-> Hero(k)]

\* what the request for robots.txt and its parsing come to: the request
\* fails, the body cannot be parsed (robotsParser throws), or the parsed
\* policy allows or disallows the url
RobotsOutcomes == {"unreachable", "unparsable", "allows", "disallows"}

\* mutant: a failure to get the policy counts as a denial
canScrapeFailClosed(robots) == robots = "allows"

\* canScrape: isAllowed of the parsed policy; true from the catch block
canScrape(robots) ==
  IF robots \in {"unreachable", "unparsable"} THEN TRUE
  ELSE robots = "allows"

\* what a store request resolves to: { error: null } or { error }
SinkOutcomes == {"ok", "error"}

\* a hero page with a biography, both stat panels and a skill table
PageCurrent ==
  [blockquotes |-> <<[id |-> NoAttr, class |-> NoAttr, ps |-> <<" a ", Marker>>]>>,
   health |-> [values |-> <<" 250 ">>],
   difficulty |-> [imgs |-> <<Attr("StarFull"), Attr("StarFull"), Attr("StarEmpty")>>],
   skillTable |-> [rows |-> <<<<ImgLeft, Cell(""), Cell(" web STRIKE ")>>,
                              <<WideCell(Attr("3"), " fires webs ", <<BoldCooldown6>>)>>>>],
   asides |-> <<>>]

\* a hero page with no biography, both stat panels and a legacy aside
PageLegacyNoLore ==
  [blockquotes |-> <<[id |-> Attr("x"), class |-> NoAttr, ps |-> <<" a ", Marker>>]>>,
   health |-> [values |-> <<"275">>],
   difficulty |-> [imgs |-> <<Attr("StarFull")>>],
   skillTable |-> NoMatch,
   asides |-> <<[title |-> " web STRIKE ", keybind |-> "Primary 1",
                 description |-> " swings ", groups |-> <<StatGroup>>,
                 properties |-> ""]>>]

\* a hero page with a biography, no stat panel, and a skill table whose one
\* start row has an img that is no mouse button
PageUntyped ==
  [blockquotes |-> <<[id |-> NoAttr, class |-> NoAttr, ps |-> <<"b", "", Marker>>]>>,
   health |-> NoMatch,
   difficulty |-> NoMatch,
   skillTable |-> [rows |-> <<<<ImgMiddle, Cell(""), Cell("web swing")>>>>],
   asides |-> <<>>]

\* a hero page whose skill table has two start rows of the same name
PageTwice ==
  [EmptyPage EXCEPT
     !.skillTable = [rows |-> <<<<ImgLeft, Cell(""), Cell("thwip")>>,
                                <<Cell("q"), Cell(""), Cell("thwip")>>>>]]

\* the documents a hero page request may be answered with
HeroPages == {PageCurrent, PageLegacyNoLore, PageUntyped, PageTwice, EmptyPage}

\* an a.list-item of a news page: its href, the src of its div.img img, the
\* text of its div.text h2 and of its div.text p
Anchor(href, src, h2, par) == [href |-> href, src |-> src, h2 |-> h2, p |-> par]

\* the documents a news page request may be answered with
NewsPages ==
  {[anchors |-> <<>>],
   [anchors |-> <<Anchor(Attr(" /news/1 "), Attr(" i.png "), " Patch ", " notes ")>>],
   [anchors |-> <<Anchor(NoAttr, NoAttr, "Lost", ""),
                  Anchor(Attr("/news/1"), NoAttr, "Patch", " "),
                  Anchor(Attr("/news/2"), NoAttr, " ", "x")>>],
   [anchors |-> <<Anchor(Attr(" "), NoAttr, "Blank", "")>>]}

(***************************************************************************)
(* ScrapingService: the loops of scrapeNews, scrapeHeroLoreAndStats and    *)
(* scrapeHeroAbilities.  A step runs a pass from one await to the next.    *)
(***************************************************************************)
tableVars == <<news, marvel_rivals_heroes, marvel_rivals_abilities>>

\* the current item has ended with the outcome logged: the loop moves on to
\* the next item, or the pass returns after the last one
EndItem(rec, outcome) ==
  [rec EXCEPT
     !.pc = IF rec.i + 1 > Len(rec.work) THEN "done" ELSE "canScrape",
     !.i = rec.i + 1,
     !.j = 0,
     !.robots = NotCalled,
     !.page = NotFetched,
     !.inFlight = Null,
     !.last = [item |-> rec.i, robots |-> rec.robots, page |-> rec.page,
               outcome |-> outcome]]

\* mutant: the catch block of an item returns from the pass
CatchAndReturn(rec, outcome) ==
  [rec EXCEPT
     !.pc = "done",
     !.j = 0,
     !.robots = NotCalled,
     !.page = NotFetched,
     !.inFlight = Null,
     !.last = [item |-> rec.i, robots |-> rec.robots, page |-> rec.page,
               outcome |-> outcome]]

\* the catch block of an item: the error is logged and the loop continues
CatchAndContinue(rec, outcome) == EndItem(rec, outcome)

\* no pass is between its call and its return
AllReturned == \A q \in PassNames : pass[q].pc \in {"idle", "done"}

\* pass p is called; the locals of the passes that returned are gone
Called(p, rec) == [q \in PassNames |-> IF q = p THEN rec ELSE NotRunning]

\* GET scraping/news, scrapeNewsCron
ScrapeNews ==
  /\ AllReturned
  /\ now < MaxRuns
  /\ pass' = Called("scrapeNews",
                    [NotRunning EXCEPT !.pc = "canScrape", !.work = newsUrls, !.i = 1])
  /\ now' = now + 1
  /\ UNCHANGED <<tableVars, utilVars, walkVars>>

\* GET scraping/heroes/lore, scrapeHeroLoreAndStatsCron
ScrapeHeroLoreAndStats ==
  /\ AllReturned
  /\ now < MaxRuns
  /\ pass' = Called("scrapeHeroLoreAndStats", [NotRunning EXCEPT !.pc = "select"])
  /\ now' = now + 1
  /\ UNCHANGED <<tableVars, utilVars, walkVars>>

\* GET scraping/heroes/abilities, scrapeHeroAbilitiesCron
ScrapeHeroAbilities ==
  /\ AllReturned
  /\ now < MaxRuns
  /\ pass' = Called("scrapeHeroAbilities", [NotRunning EXCEPT !.pc = "select"])
  /\ now' = now + 1
  /\ UNCHANGED <<tableVars, utilVars, walkVars>>

\* select('id, name')
IdAndName(rows) == [k \in 1..Len(rows) |-> [id |-> rows[k].id, name |-> rows[k].name]]

\* the select of a hero pass resolves: the pass returns on fetchError and on
\* an empty list, and enters its loop otherwise
SelectHeroes(p) ==
  /\ pass[p].pc = "select"
  /\ \E outcome \in SinkOutcomes :
       LET heroes == IF p = "scrapeHeroAbilities" THEN IdAndName(marvel_rivals_heroes)
                     ELSE marvel_rivals_heroes
       IN  pass' = [pass EXCEPT ![p] =
                      IF outcome = "error" \/ Len(heroes) = 0
                      THEN [@ EXCEPT !.pc = "done"]
                      ELSE [@ EXCEPT !.pc = "canScrape", !.work = heroes, !.i = 1]]
  /\ UNCHANGED <<tableVars, now, utilVars, walkVars>>

\* await this.canScrape(url) resolves: continue when it is false
CanScrape(p) ==
  /\ pass[p].pc = "canScrape"
  /\ \E robots \in RobotsOutcomes :
       LET rec == [pass[p] EXCEPT !.robots = robots]
       IN  pass' = [pass EXCEPT ![p] =
                      IF canScrape(robots) THEN [rec EXCEPT !.pc = "get"]
                      ELSE EndItem(rec, "not allowed")]
  /\ UNCHANGED <<tableVars, now, utilVars, walkVars>>

\* anchor.attr('href')?.trim(), undefined written as the empty string
LinkOf(anchor) == IF anchor.href = NoAttr THEN "" ELSE Trim(anchor.href.attr)

\* the inner loop continues: no link, or no title
AnchorSkipped(anchor) == LinkOf(anchor) = "" \/ Trim(anchor.h2) = ""

\* the first anchor from position j on that is not skipped, Len + 1 if none
RECURSIVE NextAnchor(_, _)
NextAnchor(anchors, j) ==
  IF j > Len(anchors) THEN j
  ELSE IF AnchorSkipped(anchors[j]) THEN NextAnchor(anchors, j + 1)
  ELSE j

\* text || null
TextOrNull(t) == IF t = "" THEN Null ELSE Str(t)

\* the row upserted for an anchor; the three dates are taken at time t
NewsRow(anchor, type, t) ==
  [title |-> Trim(anchor.h2),
   content |-> TextOrNull(Trim(anchor.p)),
   published_at |-> t,
   created_at |-> t,
   updated_at |-> t,
   game_id |-> marvelRivalsGameId,
   image_url |-> IF anchor.src = NoAttr THEN Null ELSE TextOrNull(Trim(anchor.src.attr)),
   type |-> type,
   url |-> LinkOf(anchor)]

\* scrapeNews from an anchor on: the upsert of the next anchor that is not
\* skipped is awaited, or the page is completed
NewsFrom(rec, j) ==
  LET k == NextAnchor(rec.page.anchors, j)
  IN  IF k > Len(rec.page.anchors) THEN EndItem(rec, "completed")
      ELSE [rec EXCEPT !.pc = "upsert", !.j = k,
                       !.inFlight = NewsRow(rec.page.anchors[k], rec.work[rec.i].type, now)]

\* axios.get(url) of scrapeNews resolves or fails
GetNewsPage ==
  /\ pass["scrapeNews"].pc = "get"
  /\ \/ pass' = [pass EXCEPT !["scrapeNews"] = CatchAndContinue(@, "failed")]
     \/ \E page \in NewsPages :
          LET rec == [pass["scrapeNews"] EXCEPT !.page = page]
          IN  pass' = [pass EXCEPT !["scrapeNews"] =
                         IF Len(page.anchors) = 0 THEN EndItem(rec, "no items")
                         ELSE NewsFrom(rec, 1)]
  /\ UNCHANGED <<tableVars, now, utilVars, walkVars>>

\* upsert(row, { onConflict: 'url' }) on table news
UpsertOnUrl(table, row) == {r \in table : r.url # row.url} \cup {row}

\* the upsert of scrapeNews resolves; the inner loop goes on either way
UpsertNews ==
  /\ pass["scrapeNews"].pc = "upsert"
  /\ \E outcome \in SinkOutcomes :
       news' = IF outcome = "ok" THEN UpsertOnUrl(news, pass["scrapeNews"].inFlight)
               ELSE news
  /\ pass' = [pass EXCEPT !["scrapeNews"] = NewsFrom(@, @.j + 1)]
  /\ UNCHANGED <<marvel_rivals_heroes, marvel_rivals_abilities, now, utilVars, walkVars>>

\* mutant: a page with no lore is processed like any other
NeverSkipsLore(loreContent) == FALSE

\* !loreContent: the lore pass continues with the next hero
SkipsWithoutLore(loreContent) == loreContent = Null

\* axios.get(heroUrl) of scrapeHeroLoreAndStats resolves or fails; on a page
\* with lore the update of the hero row is awaited
GetHeroPageForLore ==
  /\ pass["scrapeHeroLoreAndStats"].pc = "get"
  /\ \/ pass' = [pass EXCEPT !["scrapeHeroLoreAndStats"] = CatchAndContinue(@, "failed")]
     \/ \E page \in HeroPages :
          LET rec == [pass["scrapeHeroLoreAndStats"] EXCEPT !.page = page]
              loreContent == getHeroLoreSection(page)
          IN  pass' = [pass EXCEPT !["scrapeHeroLoreAndStats"] =
                         IF SkipsWithoutLore(loreContent) THEN EndItem(rec, "no lore")
                         ELSE [rec EXCEPT
                                 !.pc = "update",
                                 !.inFlight = [lore |-> loreContent,
                                               stats |-> generateStats(page)]]]
  /\ UNCHANGED <<tableVars, now, utilVars, walkVars>>

\* mutant: the update is sent without its filter on id
UpdateEveryRow(table, id, values) ==
  [k \in 1..Len(table) |-> [table[k] EXCEPT !.lore = values.lore, !.stats = values.stats]]

\* update({ lore, stats }).eq('id', id) on table marvel_rivals_heroes
UpdateById(table, id, values) ==
  [k \in 1..Len(table) |->
     IF table[k].id = id
     THEN [table[k] EXCEPT !.lore = values.lore, !.stats = values.stats]
     ELSE table[k]]

\* the update of scrapeHeroLoreAndStats resolves
UpdateHero ==
  /\ pass["scrapeHeroLoreAndStats"].pc = "update"
  /\ LET rec == pass["scrapeHeroLoreAndStats"]
     IN  \E outcome \in SinkOutcomes :
           /\ marvel_rivals_heroes' =
                IF outcome = "ok"
                THEN UpdateById(marvel_rivals_heroes, rec.work[rec.i].id, rec.inFlight)
                ELSE marvel_rivals_heroes
           /\ pass' = [pass EXCEPT !["scrapeHeroLoreAndStats"] =
                         EndItem(rec, IF outcome = "ok" THEN "updated" ELSE "update error")]
  /\ UNCHANGED <<news, marvel_rivals_abilities, now, utilVars, walkVars>>

\* axios.get(heroUrl) of scrapeHeroAbilities resolves or fails; when abilities
\* were extracted their upsert is awaited
GetHeroPageForAbilities ==
  /\ pass["scrapeHeroAbilities"].pc = "get"
  /\ \/ pass' = [pass EXCEPT !["scrapeHeroAbilities"] = CatchAndContinue(@, "failed")]
     \/ \E page \in HeroPages :
          LET rec == [pass["scrapeHeroAbilities"] EXCEPT !.page = page]
              extracted == extractAbilities(page, rec.work[rec.i].id)
          IN  pass' = [pass EXCEPT !["scrapeHeroAbilities"] =
                         IF Len(extracted) = 0 THEN EndItem(rec, "no abilities")
                         ELSE [rec EXCEPT !.pc = "upsert", !.inFlight = extracted]]
  /\ UNCHANGED <<tableVars, now, utilVars, walkVars>>

\* two rows of one upsert conflict on name: the store rejects the statement
NamesTwice(rows) ==
  \E a, b \in 1..Len(rows) : a # b /\ rows[a].name = rows[b].name

\* upsert(rows, { onConflict: 'name' }) on table marvel_rivals_abilities
UpsertOnName(table, rows) ==
  {r \in table : \A k \in 1..Len(rows) : rows[k].name # r.name}
    \cup {rows[k] : k \in 1..Len(rows)}

\* the upsert of scrapeHeroAbilities resolves: the pause follows when it
\* succeeded, the loop continues at once when it did not
UpsertAbilities ==
  /\ pass["scrapeHeroAbilities"].pc = "upsert"
  /\ LET rec == pass["scrapeHeroAbilities"]
     IN  \E outcome \in SinkOutcomes :
           /\ outcome = "ok" => ~NamesTwice(rec.inFlight)
           /\ marvel_rivals_abilities' =
                IF outcome = "ok" THEN UpsertOnName(marvel_rivals_abilities, rec.inFlight)
                ELSE marvel_rivals_abilities
           /\ pass' = [pass EXCEPT !["scrapeHeroAbilities"] =
                         IF outcome = "ok" THEN [rec EXCEPT !.pc = "pause"]
                         ELSE EndItem(rec, "insert error")]
  /\ UNCHANGED <<news, marvel_rivals_heroes, now, utilVars, walkVars>>

\* setTimeout(resolve, 1000) fires
Pause ==
  /\ pass["scrapeHeroAbilities"].pc = "pause"
  /\ pass' = [pass EXCEPT !["scrapeHeroAbilities"] = EndItem(@, "inserted")]
  /\ UNCHANGED <<tableVars, now, utilVars, walkVars>>

InitPasses ==
  /\ heroPageData = EmptyPage
  /\ result = NotCalled
  /\ WalkIdle
  /\ news = {}
  /\ \E n \in 0..NumHeroes : marvel_rivals_heroes = Roster(n)
  /\ marvel_rivals_abilities = {}
  /\ pass = [p \in PassNames |-> NotRunning]
  /\ now = 0

NextPasses ==
  \/ ScrapeNews
  \/ ScrapeHeroLoreAndStats
  \/ ScrapeHeroAbilities
  \/ SelectHeroes("scrapeHeroLoreAndStats")
  \/ SelectHeroes("scrapeHeroAbilities")
  \/ CanScrape("scrapeNews")
  \/ CanScrape("scrapeHeroLoreAndStats")
  \/ CanScrape("scrapeHeroAbilities")
  \/ GetNewsPage
  \/ UpsertNews
  \/ GetHeroPageForLore
  \/ UpdateHero
  \/ GetHeroPageForAbilities
  \/ UpsertAbilities
  \/ Pause

SpecPasses == InitPasses /\ [][NextPasses]_vars

\* the outcomes that are a policy denial, a transport failure or a sink failure
FailureOutcomes == {"not allowed", "failed", "update error", "insert error"}

\* the pass is inside its loop
InLoop(rec) == rec.pc \in {"canScrape", "get", "update", "upsert", "pause"}

\* C1: canScrape fails open.  An item ends as "not allowed" if and only if
\* the policy document was retrieved, parsed and disallows the url; when the
\* request for it failed or its body could not be parsed, canScrape returned
\* true and the item went on to be fetched.
C1_GateFailsOpen ==
  \A p \in PassNames :
    /\ pass[p].pc \in {"get", "update", "upsert", "pause"} =>
         pass[p].robots \in {"unreachable", "unparsable", "allows"}
    /\ pass[p].last # Null =>
         /\ (pass[p].last.outcome = "not allowed") = (pass[p].last.robots = "disallows")
         /\ pass[p].last.robots \in {"unreachable", "unparsable"} =>
              pass[p].last.outcome \in {"failed", "no items", "completed", "no lore",
                                        "updated", "update error", "no abilities",
                                        "inserted", "insert error"}

\* C1 witness: the robots.txt request of the first hero failed, and the hero
\* page was fetched and its lore written all the same
C1_Witness ==
  /\ pass["scrapeHeroLoreAndStats"].last # Null
  /\ pass["scrapeHeroLoreAndStats"].last.item = 1
  /\ pass["scrapeHeroLoreAndStats"].last.robots = "unreachable"
  /\ pass["scrapeHeroLoreAndStats"].last.outcome = "updated"
  /\ marvel_rivals_heroes[1].lore = Str("a")

\* C2: in each of the three passes the loop is at item i exactly when the
\* items 1..i-1 have ended, one after the other in list order, whatever
\* their outcome: after a denial, a failed request or a failed store write
\* on item i the pass is at item i+1, and it returns only after the last
\* item of its list.
C2_FailuresStayWithTheirItem ==
  \A p \in PassNames :
    LET rec == pass[p]
    IN  /\ InLoop(rec) => rec.i \in 1..Len(rec.work)
        /\ rec.pc = "done" /\ rec.work # <<>> => rec.i = Len(rec.work) + 1
        /\ InLoop(rec) /\ rec.last = Null => rec.i = 1
        /\ rec.last # Null =>
             /\ rec.i = rec.last.item + 1
             /\ rec.last.item < Len(rec.work) => InLoop(rec)
             /\ rec.last.item = Len(rec.work) => rec.pc = "done"
        /\ rec.last # Null /\ rec.last.outcome \in FailureOutcomes =>
             IF rec.last.item < Len(rec.work)
             THEN InLoop(rec) /\ rec.i = rec.last.item + 1
             ELSE rec.pc = "done"

\* C2 witness: the store rejected the abilities of the first hero, and the
\* abilities of the second hero are being written
C2_Witness ==
  /\ pass["scrapeHeroAbilities"].pc = "upsert"
  /\ pass["scrapeHeroAbilities"].i = 2
  /\ pass["scrapeHeroAbilities"].last # Null
  /\ pass["scrapeHeroAbilities"].last.item = 1
  /\ pass["scrapeHeroAbilities"].last.outcome = "insert error"

LoreWrittenOnlyWithLore ==
  LET rec == pass["scrapeHeroLoreAndStats"]
  IN  /\ rec.pc = "update" =>
           /\ getHeroLoreSection(rec.page) # Null
           /\ rec.inFlight = [lore |-> getHeroLoreSection(rec.page),
                              stats |-> generateStats(rec.page)]
      /\ rec.last # Null /\ rec.last.page # NotFetched =>
           (rec.last.outcome = "no lore") = (getHeroLoreSection(rec.last.page) = Null)

\* the step that ends a hero as "no lore" writes nothing and moves the loop
\* to the next hero, or returns after the last one
NoLoreStep ==
  LET rec == pass["scrapeHeroLoreAndStats"]
      next == pass'["scrapeHeroLoreAndStats"]
  IN  /\ rec.pc = "get"
      /\ next.last # Null
      /\ next.last.item = rec.i
      /\ next.last.outcome = "no lore"
      => /\ UNCHANGED tableVars
         /\ next.i = rec.i + 1
         /\ next.pc = IF rec.i < Len(rec.work) THEN "canScrape" ELSE "done"

C4_AbilitiesHaveNameAndType ==
  /\ pass["scrapeHeroAbilities"].pc = "upsert" =>
       \A k \in 1..Len(pass["scrapeHeroAbilities"].inFlight) :
         /\ pass["scrapeHeroAbilities"].inFlight[k].name # ""
         /\ pass["scrapeHeroAbilities"].inFlight[k].type # ""
  /\ \A r \in marvel_rivals_abilities : r.name # "" /\ r.type # ""

(***************************************************************************)
(* Specification of mapAbilityType: any raw type, then one call.  The raw  *)
(* type is the keybind text of the one aside of the page.                  *)
(***************************************************************************)
RawTypeChars == "QE x"

\* the keys of typeMap, the names every object inherits, and any short text
RawTypes == TypeMapKeys \cup InheritedKeys \cup StringsUpTo(RawTypeChars, MaxTextLen)

\* the argument of mapAbilityType
rawType == heroPageData.asides[1].keybind

InitTypeMap ==
  /\ \E t \in RawTypes :
       heroPageData = [EmptyPage EXCEPT !.asides = <<[SpareAside EXCEPT !.keybind = t]>>]
  /\ result = NotCalled
  /\ WalkIdle
  /\ NoPassRunning

CallMapAbilityType ==
  /\ result = NotCalled
  /\ result' = [fn |-> "mapAbilityType", value |-> mapAbilityType(rawType)]
  /\ UNCHANGED <<heroPageData, walkVars, passVars>>

NextTypeMap == CallMapAbilityType

SpecTypeMap == InitTypeMap /\ [][NextTypeMap]_vars

\* the canonical token listed for a source token of the lookup table
CanonicalToken(token) ==
  CASE token \in {"Primary 1", "Primary"} -> "Left Mouse Button"
    [] token = "Primary 2" -> "Right Mouse Button"
    [] token \in {"Q", "E", "F", "Passive", "Left Shift"} -> token
    [] OTHER -> token

\* C11 as stated: each of the eight source tokens maps to its listed
\* canonical token, and every other token is returned unchanged.
C11_TypeMappingIsTotal ==
  result # NotCalled /\ result.fn = "mapAbilityType" =>
    result.value = CanonicalToken(rawType)

\* C13 as stated: ability rows are keyed on the character and the ability
\* name, so a stored row of one character is still stored, for that character
\* and under that name, after any step: two characters with an ability of the
\* same name both keep their own row.
C13_RowsKeyedOnCharacterAndName ==
  [][\A r \in marvel_rivals_abilities :
       \E kept \in marvel_rivals_abilities' :
         kept.hero_id = r.hero_id /\ kept.name = r.name]_vars

\* C15 as stated: in the ability pass every character whose page was fetched
\* ends with the pause, whatever came of the extraction and of the write: the
\* step that ends such a character (no abilities, write rejected, write
\* succeeded) is the pause elapsing.
C15_PauseFollowsEveryFetch ==
  [][LET before == pass["scrapeHeroAbilities"]
         after == pass'["scrapeHeroAbilities"]
     IN  /\ InLoop(before)
         /\ after.last # before.last
         /\ after.last # Null
         /\ after.last.outcome \in {"no abilities", "insert error", "inserted"}
         => before.pc = "pause"]_vars

(***************************************************************************)
(* Passes called again: the handlers fire every day and the GET routes can *)
(* be requested at any time, so a pass that returned is called once more   *)
(* over the store its earlier run left.                                    *)
(***************************************************************************)
MaxRepeats == 1

\* scrapeNews is called again after it returned
ScrapeNewsAgain ==
  /\ pass["scrapeNews"].pc = "done"
  /\ now < MaxRuns + MaxRepeats
  /\ pass' = Called("scrapeNews",
                    [NotRunning EXCEPT !.pc = "canScrape", !.work = newsUrls, !.i = 1])
  /\ now' = now + 1
  /\ UNCHANGED <<tableVars, utilVars, walkVars>>

\* scrapeHeroAbilities is called again after it returned
ScrapeHeroAbilitiesAgain ==
  /\ pass["scrapeHeroAbilities"].pc = "done"
  /\ now < MaxRuns + MaxRepeats
  /\ pass' = Called("scrapeHeroAbilities", [NotRunning EXCEPT !.pc = "select"])
  /\ now' = now + 1
  /\ UNCHANGED <<tableVars, utilVars, walkVars>>

NextRepeat ==
  \/ NextPasses
  \/ ScrapeNewsAgain
  \/ ScrapeHeroAbilitiesAgain

SpecRepeat == InitPasses /\ [][NextRepeat]_vars

\* the scraped content of a news record: every field but the three dates
SameContent(a, b) ==
  /\ a.url = b.url
  /\ a.title = b.title
  /\ a.content = b.content
  /\ a.image_url = b.image_url
  /\ a.type = b.type
  /\ a.game_id = b.game_id

\* C12 as stated: the news upsert is idempotent on url: a stored record stays
\* the one record of its url, and a step that writes it again with unchanged
\* content changes no field but updated_at; created_at and published_at keep
\* the values of the first run.
C12_RescrapeRefreshesOnlyUpdatedAt ==
  [][\A r \in news :
       \E kept \in news' :
         /\ kept.url = r.url
         /\ \A other \in news' : other.url = r.url => other = kept
         /\ SameContent(kept, r) =>
              kept.created_at = r.created_at /\ kept.published_at = r.published_at]_vars

\* C14 as stated: abilities are regenerated wholesale per character: once the
\* write for a character has succeeded, the stored abilities of that character
\* are exactly the abilities extracted from the page just fetched; an ability
\* stored by an earlier pass that is no longer on the page does not remain.
C14_AbilitiesRegeneratedWholesale ==
  LET rec == pass["scrapeHeroAbilities"]
  IN  rec.pc = "pause" =>
        {r \in marvel_rivals_abilities : r.hero_id = rec.work[rec.i].id}
          = {rec.inFlight[k] : k \in 1..Len(rec.inFlight)}

(***************************************************************************)
(* ScrapingService.scrapeHeroes, the routes of ScrapingController and the  *)
(* @Cron handlers.  One call at a time, as in SpecPasses.                  *)
(***************************************************************************)
\* a div.gallery-image-wrapper.accent: its id and its first img.thumbimage
Wrapper(id, img) == [id |-> id, img |-> img]

\* an img.thumbimage: its data-src and its title
Thumb(dataSrc, title) == [dataSrc |-> dataSrc, title |-> title]

\* a div#mr-main: the text of its first h3 .mw-headline and its wrappers
Section(headline, wrappers) == [headline |-> headline, wrappers |-> wrappers]

\* the documents the request for the heroes page may be answered with
RosterPages ==
  {[sections |-> <<>>],
   [sections |-> <<Section(" ", <<Wrapper(Attr("h9"), Thumb(Attr("9.png"), Attr("Hero 9")))>>),
                   Section("x", <<Wrapper(NoAttr, Thumb(Attr("9.png"), Attr("Hero 9"))),
                                  Wrapper(Attr("h9"), NoMatch),
                                  Wrapper(Attr("h9"), Thumb(Attr(" "), Attr("Hero 9"))),
                                  Wrapper(Attr("h9"), Thumb(Attr("9.png"), NoAttr))>>)>>],
   [sections |-> <<Section(" Duelist ",
                           <<Wrapper(Attr(" h1 "), Thumb(Attr(" new.png "), Attr(" Hero 1 (Duelist) "))),
                             Wrapper(Attr("h3"), Thumb(Attr("3.png"), Attr("Hero 3")))>>)>>],
   [sections |-> <<Section("Vanguard",
                           <<Wrapper(Attr("h1"), Thumb(Attr("1.png"), Attr("Hero 1(")))>>),
                   Section("Duelist",
                           <<Wrapper(Attr("h1"), Thumb(Attr("1.png"), Attr("Hero 1"))),
                             Wrapper(Attr("h4"), Thumb(Attr("4.png"), Attr("(Hero 4)")))>>)>>]}

\* attr(...)?.trim(), undefined written as the empty string
TrimmedAttr(a) == IF a = NoAttr THEN "" ELSE Trim(a.attr)

\* the lengths k of a prefix that /^(.+?)\s*\(/ can take as its group: white
\* space alone lies between the prefix and an opening bracket
GroupLengths(titleAttr) ==
  {k \in 1..Len(titleAttr) :
     \E b \in (k + 1)..Len(titleAttr) :
       /\ CharAt(titleAttr, b) = "("
       /\ \A w \in (k + 1)..(b - 1) : IsWhite(CharAt(titleAttr, w))}

\* nameMatch ? nameMatch[1].trim() : titleAttr, the group being lazy
HeroNameOf(titleAttr) ==
  IF GroupLengths(titleAttr) = {} THEN titleAttr
  ELSE LET k == CHOOSE g \in GroupLengths(titleAttr) :
                  \A h \in GroupLengths(titleAttr) : g <= h
       IN  Trim(SubSeq(titleAttr, 1, k))

\* the callback of galleryWrappers.each returns without a push
WrapperSkipped(wrapper) ==
  \/ TrimmedAttr(wrapper.id) = ""
  \/ wrapper.img = NoMatch
  \/ TrimmedAttr(wrapper.img.dataSrc) = ""
  \/ TrimmedAttr(wrapper.img.title) = ""
  \/ HeroNameOf(TrimmedAttr(wrapper.img.title)) = ""

\* the heroes pushed from wrapper j on of a section of type heroType
RECURSIVE HeroesOfWrappers(_, _, _, _)
HeroesOfWrappers(wrappers, j, heroType, t) ==
  IF j > Len(wrappers) THEN <<>>
  ELSE (IF WrapperSkipped(wrappers[j]) THEN <<>>
        ELSE <<[name |-> HeroNameOf(TrimmedAttr(wrappers[j].img.title)),
                image_url |-> TrimmedAttr(wrappers[j].img.dataSrc),
                type |-> heroType,
                created_at |-> t,
                game_id |-> marvelRivalsGameId]>>)
       \o HeroesOfWrappers(wrappers, j + 1, heroType, t)

\* the heroes pushed from section i on; a section with no type is skipped
RECURSIVE HeroesOfSections(_, _, _)
HeroesOfSections(sections, i, t) ==
  IF i > Len(sections) THEN <<>>
  ELSE LET heroType == ToLowerCase(Trim(sections[i].headline))
       IN  (IF heroType = "" THEN <<>>
            ELSE HeroesOfWrappers(sections[i].wrappers, 1, heroType, t))
           \o HeroesOfSections(sections, i + 1, t)

\* GET scraping/heroes
ScrapeHeroes ==
  /\ AllReturned
  /\ now < MaxRuns
  /\ pass' = Called("scrapeHeroes", [NotRunning EXCEPT !.pc = "canScrape"])
  /\ now' = now + 1
  /\ UNCHANGED <<tableVars, utilVars, walkVars>>

\* axios.get(heroesUrl) resolves or fails; the pass returns when the page has
\* no div#mr-main and when no hero was extracted, and awaits the upsert
\* otherwise
GetHeroesPage ==
  /\ pass["scrapeHeroes"].pc = "get"
  /\ \/ pass' = [pass EXCEPT !["scrapeHeroes"] = EndItem(@, "failed")]
     \/ \E page \in RosterPages :
          LET rec == [pass["scrapeHeroes"] EXCEPT !.page = page]
              heroes == HeroesOfSections(page.sections, 1, now)
          IN  pass' = [pass EXCEPT !["scrapeHeroes"] =
                         IF Len(page.sections) = 0 THEN EndItem(rec, "no sections")
                         ELSE IF Len(heroes) = 0 THEN EndItem(rec, "no heroes")
                         ELSE [rec EXCEPT !.pc = "upsert", !.inFlight = heroes]]
  /\ UNCHANGED <<tableVars, now, utilVars, walkVars>>

\* the position in table of the row of a name, 0 if there is none
RowOfName(table, name) ==
  IF \E k \in 1..Len(table) : table[k].name = name
  THEN CHOOSE k \in 1..Len(table) : table[k].name = name
  ELSE 0

\* upsert(heroes, { onConflict: 'name' }) on table marvel_rivals_heroes, from
\* row j of the statement on: the row of the name takes the columns given, a
\* new row gets its id from the store and no lore and stats
RECURSIVE UpsertHeroesOnName(_, _, _)
UpsertHeroesOnName(table, heroes, j) ==
  IF j > Len(heroes) THEN table
  ELSE LET k == RowOfName(table, heroes[j].name)
           row == heroes[j]
       IN  UpsertHeroesOnName(
             IF k = 0
             THEN Append(table, [id |-> "hero-" \o ToString(Len(table) + 1),
                                 name |-> row.name, image_url |-> row.image_url,
                                 type |-> row.type, created_at |-> row.created_at,
                                 game_id |-> row.game_id, lore |-> Null, stats |-> Null])
             ELSE [table EXCEPT ![k] = [@ EXCEPT !.image_url = row.image_url,
                                                 !.type = row.type,
                                                 !.created_at = row.created_at,
                                                 !.game_id = row.game_id]],
             heroes, j + 1)

\* the upsert of scrapeHeroes resolves; a statement with two rows of one name
\* is rejected by the store
UpsertHeroes ==
  /\ pass["scrapeHeroes"].pc = "upsert"
  /\ LET rec == pass["scrapeHeroes"]
     IN  \E outcome \in SinkOutcomes :
           /\ outcome = "ok" => ~NamesTwice(rec.inFlight)
           /\ marvel_rivals_heroes' =
                IF outcome = "ok" THEN UpsertHeroesOnName(marvel_rivals_heroes, rec.inFlight, 1)
                ELSE marvel_rivals_heroes
           /\ pass' = [pass EXCEPT !["scrapeHeroes"] =
                         EndItem(rec, IF outcome = "ok" THEN "upserted" ELSE "upsert error")]
  /\ UNCHANGED <<news, marvel_rivals_abilities, now, utilVars, walkVars>>

\* ScrapingController: the four routes
GetNews == ScrapeNews

GetHeroes == ScrapeHeroes

GetLore == ScrapeHeroLoreAndStats

GetAbilities == ScrapeHeroAbilities

\* the three methods decorated with @Cron(EVERY_DAY_AT_8PM)
scrapeHeroAbilitiesCron == ScrapeHeroAbilities

scrapeHeroLoreAndStatsCron == ScrapeHeroLoreAndStats

scrapeNewsCron == ScrapeNews

NextTriggers ==
  \/ GetNews
  \/ GetHeroes
  \/ GetLore
  \/ GetAbilities
  \/ scrapeHeroAbilitiesCron
  \/ scrapeHeroLoreAndStatsCron
  \/ scrapeNewsCron
  \/ SelectHeroes("scrapeHeroLoreAndStats")
  \/ SelectHeroes("scrapeHeroAbilities")
  \/ CanScrape("scrapeNews")
  \/ CanScrape("scrapeHeroes")
  \/ CanScrape("scrapeHeroLoreAndStats")
  \/ CanScrape("scrapeHeroAbilities")
  \/ GetNewsPage
  \/ UpsertNews
  \/ GetHeroesPage
  \/ UpsertHeroes
  \/ GetHeroPageForLore
  \/ UpdateHero
  \/ GetHeroPageForAbilities
  \/ UpsertAbilities
  \/ Pause

SpecTriggers == InitPasses /\ [][NextTriggers]_vars

\* the four passes of the service
FourPasses == {"scrapeNews", "scrapeHeroes", "scrapeHeroLoreAndStats", "scrapeHeroAbilities"}

\* pass p is started in this step
Started(p) == pass[p].pc \in {"idle", "done"} /\ pass'[p].pc \notin {"idle", "done"}

\* C16 as stated: the daily cadence invokes all four passes, the same ones
\* the four routes invoke: a step that starts any of the news, roster,
\* lore+stats and ability passes is a step that one of the scheduled handlers
\* takes.
C16_CadenceInvokesAllFourPasses ==
  [][\A p \in FourPasses :
       Started(p) =>
         scrapeHeroAbilitiesCron \/ scrapeHeroLoreAndStatsCron \/ scrapeNewsCron]_vars

(***************************************************************************)
(* The scheduled firing.  The three @Cron handlers have the same           *)
(* expression, so the scheduler invokes them one after the other at the    *)
(* same instant: each runs to its first await, and from there on the lore  *)
(* pass and the ability pass take their steps in any order.  The requests  *)
(* of scrapeNews stay pending here: that pass works on table news alone    *)
(* and is followed in SpecPasses.                                          *)
(***************************************************************************)
EveryDayAt8PM ==
  /\ AllReturned
  /\ now < MaxRuns
  /\ pass' = [pass EXCEPT
                !["scrapeHeroAbilities"] = [NotRunning EXCEPT !.pc = "select"],
                !["scrapeHeroLoreAndStats"] = [NotRunning EXCEPT !.pc = "select"],
                !["scrapeNews"] = [NotRunning EXCEPT !.pc = "canScrape",
                                                     !.work = newsUrls, !.i = 1]]
  /\ now' = now + 1
  /\ UNCHANGED <<tableVars, utilVars, walkVars>>

NextCron ==
  \/ EveryDayAt8PM
  \/ SelectHeroes("scrapeHeroLoreAndStats")
  \/ SelectHeroes("scrapeHeroAbilities")
  \/ CanScrape("scrapeHeroLoreAndStats")
  \/ CanScrape("scrapeHeroAbilities")
  \/ GetHeroPageForLore
  \/ UpdateHero
  \/ GetHeroPageForAbilities
  \/ UpsertAbilities
  \/ Pause

SpecCron == InitPasses /\ [][NextCron]_vars

\* the outcomes an item of a hero pass ends with
TerminalOutcomes ==
  {"not allowed", "failed", "no lore", "updated", "update error",
   "no abilities", "inserted", "insert error"}

\* within a pass at most one item is in flight: the item the loop is at is the
\* one after the item that ended last, and at its gate check nothing of an
\* earlier item is pending
OneItemInFlight(rec) ==
  InLoop(rec) =>
    /\ rec.i \in 1..Len(rec.work)
    /\ rec.i = 1 => rec.last = Null
    /\ rec.i > 1 =>
         /\ rec.last # Null
         /\ rec.last.item = rec.i - 1
         /\ rec.last.outcome \in TerminalOutcomes
    /\ rec.pc = "canScrape" =>
         rec.robots = NotCalled /\ rec.page = NotFetched /\ rec.inFlight = Null

\* what the ability pass reads of the roster, ids and names in order, is what
\* the roster held at the firing, whatever the lore pass has written since
RosterAsFired ==
  \A k \in 1..Len(marvel_rivals_heroes) :
    /\ marvel_rivals_heroes[k].id = Hero(k).id
    /\ marvel_rivals_heroes[k].name = Hero(k).name

\* a step of the lore pass after the firing is the step it takes when it runs
\* alone: the ability pass and its table are left as they are, and the roster
\* changes only by an accepted update, in the lore and stats of the row of the
\* item
LoreStepAsAlone ==
  LET before == pass["scrapeHeroLoreAndStats"]
      after == pass'["scrapeHeroLoreAndStats"]
      written == before.pc = "update" /\ after.last.outcome = "updated"
  IN  after # before /\ before.pc \notin {"idle", "done"} =>
        /\ pass'["scrapeHeroAbilities"] = pass["scrapeHeroAbilities"]
        /\ marvel_rivals_abilities' = marvel_rivals_abilities
        /\ before.pc = "select" /\ after.pc # "done" => after.work = marvel_rivals_heroes
        /\ ~written => marvel_rivals_heroes' = marvel_rivals_heroes
        /\ written =>
             /\ Len(marvel_rivals_heroes') = Len(marvel_rivals_heroes)
             /\ \A k \in 1..Len(marvel_rivals_heroes) :
                  IF marvel_rivals_heroes[k].id = before.work[before.i].id
                  THEN marvel_rivals_heroes'[k] =
                         [marvel_rivals_heroes[k] EXCEPT !.lore = before.inFlight.lore,
                                                         !.stats = before.inFlight.stats]
                  ELSE marvel_rivals_heroes'[k] = marvel_rivals_heroes[k]

\* a step of the ability pass after the firing is the step it takes when it
\* runs alone: the lore pass and the roster are left as they are, and the
\* ability table changes only by an accepted upsert, which stores the rows of
\* the item and keeps every row of another name
AbilityStepAsAlone ==
  LET before == pass["scrapeHeroAbilities"]
      after == pass'["scrapeHeroAbilities"]
      written == before.pc = "upsert" /\ after.pc = "pause"
      rows == {before.inFlight[k] : k \in 1..Len(before.inFlight)}
  IN  after # before /\ before.pc \notin {"idle", "done"} =>
        /\ pass'["scrapeHeroLoreAndStats"] = pass["scrapeHeroLoreAndStats"]
        /\ marvel_rivals_heroes' = marvel_rivals_heroes
        /\ before.pc = "select" /\ after.pc # "done" =>
             after.work = [k \in 1..Len(marvel_rivals_heroes) |->
                             [id |-> Hero(k).id, name |-> Hero(k).name]]
        /\ ~written => marvel_rivals_abilities' = marvel_rivals_abilities
        /\ written =>
             marvel_rivals_abilities' =
               rows \cup {r \in marvel_rivals_abilities :
                            \A row \in rows : row.name # r.name}

\* C17, the interleaved passes: whatever the order of their steps after the
\* firing, the lore pass and the ability pass each read and write what they
\* read and write when the two run one after the other, so the store they
\* leave is the same; within each pass at most one item is in flight.
C17_InterleavingEqualsSequential ==
  /\ [](/\ OneItemInFlight(pass["scrapeHeroLoreAndStats"])
        /\ OneItemInFlight(pass["scrapeHeroAbilities"])
        /\ RosterAsFired)
  /\ [][LoreStepAsAlone /\ AbilityStepAsAlone]_vars

\* both passes have the write for the second hero in flight at once, after
\* both have written for the first
C17_Witness ==
  /\ pass["scrapeHeroLoreAndStats"].pc = "update"
  /\ pass["scrapeHeroAbilities"].pc = "upsert"
  /\ pass["scrapeHeroLoreAndStats"].i = 2
  /\ pass["scrapeHeroAbilities"].i = 2
  /\ pass["scrapeHeroLoreAndStats"].last.outcome = "updated"
  /\ pass["scrapeHeroAbilities"].last.outcome = "inserted"
  /\ marvel_rivals_heroes[1].lore # Null
  /\ marvel_rivals_abilities # {}

====
